---------------------------- MODULE Spec2Model ----------------------------
(***************************************************************************)
(* A model of CityDreamer's dataset generator (utils/dataset_generator.py): *)
(* the tag-to-value footprint classifier, the layer compositor             *)
(* get_osm_images, the mask cleaner _remove_mask_outliers, the patch       *)
(* extraction _get_img_patch, the camera track alignment and the rendering *)
(* loop of get_google_earth_aligned_seg_maps; and of the tile fetcher      *)
(* (utils/osm_image_fetcher.py).                                           *)
(*                                                                         *)
(* The components share no state but the log, so each has its own          *)
(* variables and its own specification (SpecClassify, SpecOsm, SpecMask,   *)
(* SpecPatch, SpecTrack, SpecFetch); a specification leaves the other      *)
(* components' variables at Idle.                                          *)
(***************************************************************************)
EXTENDS Integers, Sequences, FiniteSets, TLC

VARIABLES cls, tile, ret, saved, mk, pt, log, trk, ft

vars == <<cls, tile, ret, saved, mk, pt, log, trk, ft>>

\* The value of a component's variable under another component's specification.
Idle == [k |-> "idle"]

(***************************************************************************)
(* Python values a classifier call can end with: a number, None, or a      *)
(* raised exception.                                                       *)
(***************************************************************************)
Val(n) == [k |-> "val", v |-> n]
None == [k |-> "none", v |-> 0]
Raised(e) == [k |-> e, v |-> 0]
AssertionError == Raised("AssertionError")
UnknownMapName == Raised("Exception")

(***************************************************************************)
(* Footprint tags: a dict from some of the keys to values.  The value of   *)
(* "height" is the decimal numeral of the tag, kept in tenths (25 is the   *)
(* tag "2.5"): float() of the tag is that many tenths.                     *)
(***************************************************************************)
MaxHeightTenths == 25

Heights == 0..MaxHeightTenths

TagKeys == {"role", "building", "landuse", "height"}

TagValues(key) ==
    CASE key = "role" -> {"inner", "outer"}
      [] key = "building" -> {"yes", "roof"}
      [] key = "landuse" -> {"construction", "grass"}
      [] key = "height" -> Heights

\* Every dict over a subset of the keys, heights drawn from hs.
TagSetsOver(hs) ==
    UNION { { [k \in K |-> IF k = "role" THEN f[1]
                           ELSE IF k = "building" THEN f[2]
                           ELSE IF k = "landuse" THEN f[3]
                           ELSE f[4]] :
              f \in TagValues("role") \X TagValues("building")
                      \X TagValues("landuse") \X hs } :
            K \in SUBSET TagKeys }

TagSets == TagSetsOver(Heights)

MapNames == {"height_field", "seg_map", "footprint_contour", "depth_map"}

\* _tag_equals(tags, key, values): values = {} stands for values=None.
_tag_equals(tags, key, values) ==
    IF key \notin DOMAIN tags THEN FALSE
    ELSE IF values = {} THEN TRUE
    ELSE tags[key] \in values

\* int(x) of a float given in tenths: truncation toward zero.
PyIntOfTenths(t) == IF t >= 0 THEN t \div 10 ELSE -((-t) \div 10)

\* int(float(footprint_tags["height"]) + 0.5)
HeightOfTag(h) == PyIntOfTenths(h + 5)

\* A plausible slip: the construction rule tested before the skip rules.
HeightFieldColorConstructionFirst(tags) ==
    IF _tag_equals(tags, "landuse", {"construction"}) THEN Val(10)
    ELSE IF _tag_equals(tags, "role", {"inner"}) THEN None
    ELSE IF _tag_equals(tags, "building", {"roof"}) THEN None
    ELSE IF "height" \notin DOMAIN tags THEN AssertionError
    ELSE Val(HeightOfTag(tags["height"]))

\* A plausible slip: a default height fabricated for a footprint without one.
HeightFieldColorDefaulting(tags) ==
    IF _tag_equals(tags, "role", {"inner"}) THEN None
    ELSE IF _tag_equals(tags, "building", {"roof"}) THEN None
    ELSE IF _tag_equals(tags, "landuse", {"construction"}) THEN Val(10)
    ELSE IF "height" \notin DOMAIN tags THEN Val(0)
    ELSE Val(HeightOfTag(tags["height"]))

\* _get_footprint_color, map_name == "height_field"
HeightFieldColor(tags) ==
    IF _tag_equals(tags, "role", {"inner"}) THEN None
    ELSE IF _tag_equals(tags, "building", {"roof"}) THEN None
    ELSE IF _tag_equals(tags, "landuse", {"construction"}) THEN Val(10)
    ELSE IF "height" \notin DOMAIN tags THEN AssertionError
    ELSE Val(HeightOfTag(tags["height"]))

\* A plausible slip: the role test left out of the seg_map rules.
SegMapColorNoRole(tags) ==
    IF _tag_equals(tags, "building", {}) THEN Val(2)
    ELSE IF _tag_equals(tags, "landuse", {"construction"}) THEN Val(4)
    ELSE Val(0)

\* _get_footprint_color, map_name == "seg_map"
SegMapColor(tags) ==
    IF _tag_equals(tags, "role", {"inner"}) THEN Val(2)
    ELSE IF _tag_equals(tags, "building", {}) THEN Val(2)
    ELSE IF _tag_equals(tags, "landuse", {"construction"}) THEN Val(4)
    ELSE Val(0)

\* _get_footprint_color, map_name == "footprint_contour"
ContourColor(tags) ==
    IF _tag_equals(tags, "building", {}) THEN Val(1) ELSE Val(0)

_get_footprint_color(map_name, tags) ==
    IF map_name = "height_field" THEN HeightFieldColor(tags)
    ELSE IF map_name = "seg_map" THEN SegMapColor(tags)
    ELSE IF map_name = "footprint_contour" THEN ContourColor(tags)
    ELSE UnknownMapName

_get_highway_color(map_name) ==
    IF map_name = "height_field" THEN Val(0)
    ELSE IF map_name = "seg_map" THEN Val(1)
    ELSE UnknownMapName

(***************************************************************************)
(* SpecClassify: one call of _get_footprint_color on any map name and any  *)
(* tag set.                                                                *)
(***************************************************************************)
InitClassify ==
    /\ cls \in [map_name : MapNames, tags : TagSets, called : {FALSE}, result : {None}]
    /\ tile = Idle /\ ret = Idle /\ saved = FALSE /\ mk = Idle /\ pt = Idle
    /\ log = << >> /\ trk = Idle /\ ft = Idle

Classify ==
    /\ cls.called = FALSE
    /\ cls' = [cls EXCEPT !.called = TRUE,
                          !.result = _get_footprint_color(cls.map_name, cls.tags)]
    /\ UNCHANGED <<tile, ret, saved, mk, pt, log, trk, ft>>

NextClassify == Classify

SpecClassify == InitClassify /\ [][NextClassify]_vars

(***************************************************************************)
(* The layer compositor, get_osm_images.  A raster is a function from the  *)
(* pixel sites of the tile to values.  The rasterisers of utils.osm_helper *)
(* paint a feature's pixels with the value the colour callback returns:    *)
(* a highway is given by the pixels its stroke covers, a footprint by its  *)
(* tags and the pixels its polygon covers.  The footprints are those left  *)
(* by fix_missing_footprint_height, which may or may not have given every  *)
(* one a height.  The environment masks are the masks as returned by       *)
(* _remove_mask_outliers for the tile image, when that image exists.       *)
(***************************************************************************)
NPix == 1

MaxFootprints == 1

Pixels == 1..NPix

\* Tag sets of the footprints of a tile: one value per key besides absence,
\* two for the building key.
TileTagSets ==
    { t \in TagSetsOver({MaxHeightTenths}) :
        /\ "role" \in DOMAIN t => t["role"] = "inner"
        /\ "landuse" \in DOMAIN t => t["landuse"] = "construction" }

Footprints == [tags : TileTagSets, cover : SUBSET Pixels]

FootprintLists == UNION { [1..n -> Footprints] : n \in 0..MaxFootprints }

TileImages ==
    {[exists |-> FALSE, green |-> {}, coast |-> {}]}
    \cup [exists : {TRUE}, green : SUBSET Pixels, coast : SUBSET Pixels]

Tiles == [highways : SUBSET Pixels, footprints : FootprintLists, img : TileImages]

\* utils.osm_helper.get_empty_map: a raster of zeros.
get_empty_map == [p \in Pixels |-> 0]

\* canvas[cover] = color
Paint(canvas, cover, color) ==
    [p \in Pixels |-> IF p \in cover THEN color ELSE canvas[p]]

\* canvas[canvas == old] = new
Replace(canvas, old, new) ==
    [p \in Pixels |-> IF canvas[p] = old THEN new ELSE canvas[p]]

\* utils.osm_helper.plot_highways: every highway stroke painted with the
\* callback's value.
plot_highways(map_name, canvas, highways) ==
    Paint(canvas, highways, _get_highway_color(map_name).v)

\* utils.osm_helper.plot_footprints: the footprints painted in order, each
\* with the callback's value, a footprint whose value is None skipped, an
\* exception of the callback propagated.
RECURSIVE plot_footprints(_, _, _)
plot_footprints(map_name, canvas, footprints) ==
    IF footprints = << >> THEN [k |-> "ok", canvas |-> canvas]
    ELSE LET fp == Head(footprints)
             color == _get_footprint_color(map_name, fp.tags)
         IN  IF color.k = "val"
             THEN plot_footprints(map_name, Paint(canvas, fp.cover, color.v),
                                  Tail(footprints))
             ELSE IF color.k = "none"
             THEN plot_footprints(map_name, canvas, Tail(footprints))
             ELSE [k |-> color.k, canvas |-> canvas]

\* get_green_lands: the cleaned mask times the uncategoried pixels of seg_map.
get_green_lands(img, seg_map) == {p \in img.green : seg_map[p] = 0}

\* get_coast_zones: the cleaned mask.
get_coast_zones(img) == img.coast

\* A plausible slip: the fallback to class 6 left out.
AssignGroundSkipped(seg_map) == seg_map

\* seg_map[seg_map == 0] = 6
AssignGround(seg_map) == Replace(seg_map, 0, 6)

\* The green lands and coast zones read from the tile image, None (here the
\* empty mask with present = FALSE) when the image is missing.
EnvMasks(t, seg_highways) ==
    IF ~t.img.exists
    THEN [present |-> FALSE, green_lands |-> {}, coast_zones |-> {}]
    ELSE [present |-> TRUE,
          green_lands |-> get_green_lands(t.img, seg_highways),
          coast_zones |-> get_coast_zones(t.img)]

SegHighways(t) == plot_highways("seg_map", get_empty_map, t.highways)

\* seg_map[green_lands != 0] = 3; seg_map[coast_zones != 0] = 5
SegEnv(t) ==
    LET env == EnvMasks(t, SegHighways(t))
    IN  IF env.present
        THEN Paint(Paint(SegHighways(t), env.green_lands, 3), env.coast_zones, 5)
        ELSE SegHighways(t)

\* A plausible slip: the footprints painted first, below the highways and
\* the environment overrides.
SegMapFootprintsFirst(t) ==
    LET fp == plot_footprints("seg_map", get_empty_map, t.footprints)
        hw == Paint(fp.canvas, t.highways, _get_highway_color("seg_map").v)
        env == EnvMasks(t, hw)
    IN  [k |-> fp.k,
         canvas |-> AssignGround(
             IF env.present
             THEN Paint(Paint(hw, env.green_lands, 3), env.coast_zones, 5)
             ELSE hw)]

\* The segmentation map: highways, green lands, coast zones, footprints,
\* then the ground class.
SegMap(t) ==
    LET fp == plot_footprints("seg_map", SegEnv(t), t.footprints)
    IN  [k |-> fp.k, canvas |-> AssignGround(fp.canvas)]

\* The footprint contours.
FootprintContour(t) ==
    plot_footprints("footprint_contour", get_empty_map, t.footprints)

\* A plausible slip: the overrides without their "is not None" guards, where
\* height_field[None != 0] = v assigns every pixel.
HeightFieldEnvUnguarded(t) ==
    LET env == EnvMasks(t, SegHighways(t))
        hf == Replace(plot_highways("height_field", get_empty_map, t.highways), 0, 4)
    IN  IF env.present
        THEN Paint(Paint(hf, env.coast_zones, 0), env.green_lands, 8)
        ELSE Paint(Paint(hf, Pixels, 0), Pixels, 8)

\* height_field[height_field == 0] = 4, then coast zones 0, green lands 8
HeightFieldEnv(t) ==
    LET env == EnvMasks(t, SegHighways(t))
        hf == Replace(plot_highways("height_field", get_empty_map, t.highways), 0, 4)
    IN  IF env.present
        THEN Paint(Paint(hf, env.coast_zones, 0), env.green_lands, 8)
        ELSE hf

\* The height field: highways, default terrain, coast, green lands, footprints.
HeightField(t) == plot_footprints("height_field", HeightFieldEnv(t), t.footprints)

\* get_osm_images: the three rasters, or the exception one of the steps raised.
get_osm_images(t) ==
    LET seg == SegMap(t)
        ctr == FootprintContour(t)
        hf == HeightField(t)
    IN  IF seg.k # "ok" THEN [k |-> seg.k]
        ELSE IF ctr.k # "ok" THEN [k |-> ctr.k]
        ELSE IF hf.k # "ok" THEN [k |-> hf.k]
        ELSE [k |-> "returned", height_field |-> hf.canvas,
              seg_map |-> seg.canvas, footprint_contour |-> ctr.canvas]

\* logging.warning of get_osm_images: the tile image is missing.
OsmLog(t) ==
    IF ~t.img.exists
    THEN <<[level |-> "warning", msg |-> "missing tile image"]>>
    ELSE << >>

Pending == [k |-> "pending"]

InitOsm ==
    /\ tile \in Tiles
    /\ ret = Pending
    /\ saved = FALSE
    /\ cls = Idle /\ mk = Idle /\ pt = Idle
    /\ log = << >> /\ trk = Idle /\ ft = Idle

\* main calls get_osm_images for the tile; an exception ends main.
GetOsmImages ==
    /\ ret = Pending
    /\ ret' = get_osm_images(tile)
    /\ log' = log \o OsmLog(tile)
    /\ UNCHANGED <<cls, tile, saved, mk, pt, trk, ft>>

\* main saves hf.png, ctr.png and seg.png of the returned rasters.
SaveRasters ==
    /\ ret.k = "returned"
    /\ saved = FALSE
    /\ saved' = TRUE
    /\ UNCHANGED <<cls, tile, ret, mk, pt, log, trk, ft>>

NextOsm == GetOsmImages \/ SaveRasters

SpecOsm == InitOsm /\ [][NextOsm]_vars

(***************************************************************************)
(* The mask cleaner, _remove_mask_outliers.  A mask is the set of its      *)
(* non-zero pixels <<row, column>> on a GridH x GridW raster; a binary     *)
(* mask holds one non-zero value, which the cleaner's product keeps.       *)
(***************************************************************************)
GridH == 14

GridW == 24

N_PIXELS_THRES == 96

\* The half width of the 5x5 structuring element np.ones((5, 5)).
KernelReach == 2

Grid == (0..(GridH - 1)) \X (0..(GridW - 1))

Rect(r0, c0, h, w) == (r0..(r0 + h - 1)) \X (c0..(c0 + w - 1))

\* cv2.erode with the default border: a pixel stays set when every pixel of
\* the raster within its 5x5 window is set (pixels outside the raster do not
\* count against it).
ErodeAt(mask, p) ==
    \A dr \in (-KernelReach)..KernelReach : \A dc \in (-KernelReach)..KernelReach :
        <<p[1] + dr, p[2] + dc>> \in Grid => <<p[1] + dr, p[2] + dc>> \in mask

erode(mask) == {p \in mask : ErodeAt(mask, p)}

\* The 4-neighbours of a pixel.
Nbr4(p) == {<<p[1] - 1, p[2]>>, <<p[1] + 1, p[2]>>, <<p[1], p[2] - 1>>, <<p[1], p[2] + 1>>}

RECURSIVE Flood(_, _, _)
Flood(S, seen, frontier) ==
    IF frontier = {} THEN seen
    ELSE LET nxt == {q \in UNION {Nbr4(p) : p \in frontier} : q \in S /\ q \notin seen}
         IN  Flood(S, seen \cup nxt, nxt)

\* The 4-connected component of S that holds p.
Component(S, p) == Flood(S, {p}, {p})

MinOf(ns) == CHOOSE n \in ns : \A m \in ns : n <= m

\* The first pixel of S in raster order.
FirstPixel(S) ==
    LET r == MinOf({p[1] : p \in S})
    IN  <<r, MinOf({p[2] : p \in {q \in S : q[1] = r}})>>

\* cv2.connectedComponentsWithStats(mask, connectivity=4): the components of
\* the mask, numbered from 1 in raster order of their first pixel; label 0 is
\* the background.
RECURSIVE Components(_)
Components(S) ==
    IF S = {} THEN << >>
    ELSE LET C == Component(S, FirstPixel(S))
         IN  <<C>> \o Components(S \ C)

\* stats[:, -1]: the pixel count of every label, the background's included.
AreaOf(comps, mask, label) ==
    IF label = 0 THEN Cardinality(Grid \ mask) ELSE Cardinality(comps[label])

\* A plausible slip: the threshold compared with < in place of <=.
IgnoredIndexesStrict(comps, mask) ==
    {l \in 0..Len(comps) : AreaOf(comps, mask, l) < N_PIXELS_THRES}

\* np.where(stats[:, -1] <= N_PIXELS_THRES)[0]
IgnoredIndexes(comps, mask) ==
    {l \in 0..Len(comps) : AreaOf(comps, mask, l) <= N_PIXELS_THRES}

\* mask = cv2.erode(mask, ...); return mask * ~np.isin(labels, ignored_indexes)
_remove_mask_outliers(mask) ==
    LET eroded == erode(mask)
        comps == Components(eroded)
        ignored == IgnoredIndexes(comps, eroded)
    IN  UNION {comps[l] : l \in (1..Len(comps)) \ ignored}

\* The masks given to the cleaner: the empty mask and the unions of one or
\* two rectangles, from single pixels to the whole raster, apart, touching,
\* overlapping, inside the raster or on its border.
RectRows == {0, 2, 4}

RectCols == {0, 2, 13}

RectHeights == {1, 2, 6, 10, GridH}

RectWidths == {1, 11, 20, 21, GridW}

Rects ==
    { Rect(r0, c0, h, w) :
        <<r0, c0, h, w>> \in
            { q \in RectRows \X RectCols \X RectHeights \X RectWidths :
                q[1] + q[3] <= GridH /\ q[2] + q[4] <= GridW } }

Masks == {{}} \cup { a \cup b : <<a, b>> \in Rects \X Rects }

InitMask ==
    /\ mk \in [mask : Masks, called : {FALSE}, result : {{}}]
    /\ cls = Idle /\ tile = Idle /\ ret = Idle /\ saved = FALSE /\ pt = Idle
    /\ log = << >> /\ trk = Idle /\ ft = Idle

\* One call of _remove_mask_outliers.
RemoveMaskOutliers ==
    /\ mk.called = FALSE
    /\ mk' = [mk EXCEPT !.called = TRUE, !.result = _remove_mask_outliers(mk.mask)]
    /\ UNCHANGED <<cls, tile, ret, saved, pt, log, trk, ft>>

NextMask == RemoveMaskOutliers

SpecMask == InitMask /\ [][NextMask]_vars

(***************************************************************************)
(* The patch extraction _get_img_patch and the volume centre of            *)
(* get_google_earth_aligned_seg_maps.  A raster of h rows and w columns is *)
(* given by its shape; a patch is given by the rows and the columns of the *)
(* raster it holds.  The centre (x, y) is the pixel position of the camera *)
(* target relative to the raster's origin, which may lie outside it.       *)
(***************************************************************************)
MaxDim == 4

MaxPatch == 5

Margin == 2

MaxOf(a, b) == IF a >= b THEN a ELSE b

MinOf2(a, b) == IF a <= b THEN a ELSE b

\* The indices that the slice [s:e] selects of an axis of length n: a
\* negative bound counts from the end, and bounds are cut to 0..n.
PySlice(s, e, n) ==
    LET lo == IF s < 0 THEN MaxOf(s + n, 0) ELSE MinOf2(s, n)
        hi == IF e < 0 THEN MaxOf(e + n, 0) ELSE MinOf2(e, n)
    IN  lo..(hi - 1)

\* The bounds of the window along one axis, as _get_img_patch leaves them:
\* x_s, x_e = cx - patch_size // 2, cx + patch_size // 2, then
\* if x_s < 0 or x_e >= w: x_s = 0 if x_s < 0 else x_s
\*                         x_e = 0 if x_e >= w else x_e, and a log record.
AxisBounds(c, patch_size, n) ==
    LET s == c - patch_size \div 2
        e == c + patch_size \div 2
    IN  IF s < 0 \/ e >= n
        THEN [s |-> IF s < 0 THEN 0 ELSE s, e |-> IF e >= n THEN 0 ELSE e,
              logged |-> TRUE]
        ELSE [s |-> s, e |-> e, logged |-> FALSE]

\* _get_img_patch: img[h_s:h_e, x_s:x_e] and the records logged.
_get_img_patch(h, w, cx, cy, patch_size) ==
    LET xb == AxisBounds(cx, patch_size, w)
        hb == AxisBounds(cy, patch_size, h)
    IN  [rows |-> PySlice(hb.s, hb.e, h),
         cols |-> PySlice(xb.s, xb.e, w),
         log |-> (IF xb.logged THEN <<[axis |-> "horizontal", center |-> cx]>> ELSE << >>)
                 \o (IF hb.logged THEN <<[axis |-> "vertical", center |-> cy]>> ELSE << >>)]

\* vol_cx, vol_cy = (patch_size - 1) // 2, (patch_size - 1) // 2
VolumeCentre(patch_size) == (patch_size - 1) \div 2

PatchCalls ==
    [h : 1..MaxDim, w : 1..MaxDim,
     x : (-Margin)..(MaxDim - 1 + Margin), y : (-Margin)..(MaxDim - 1 + Margin),
     patch_size : 1..MaxPatch]

InitPatch ==
    /\ pt \in { [arg |-> a, called |-> FALSE,
                 part_seg_map |-> [rows |-> {}, cols |-> {}, log |-> << >>],
                 part_hf |-> [rows |-> {}, cols |-> {}, log |-> << >>],
                 vol_cx |-> 0, vol_cy |-> 0] : a \in PatchCalls }
    /\ cls = Idle /\ tile = Idle /\ ret = Idle /\ saved = FALSE /\ mk = Idle
    /\ log = << >> /\ trk = Idle /\ ft = Idle

\* get_google_earth_aligned_seg_maps up to the volume centre: the patches of
\* the segmentation map and of the height field around the camera target,
\* and the voxel index used as the centre.
ExtractPatches ==
    /\ pt.called = FALSE
    /\ pt' = [pt EXCEPT
                !.called = TRUE,
                !.part_seg_map = _get_img_patch(pt.arg.h, pt.arg.w, pt.arg.x, pt.arg.y,
                                                pt.arg.patch_size),
                !.part_hf = _get_img_patch(pt.arg.h, pt.arg.w, pt.arg.x, pt.arg.y,
                                           pt.arg.patch_size),
                !.vol_cx = VolumeCentre(pt.arg.patch_size),
                !.vol_cy = VolumeCentre(pt.arg.patch_size)]
    /\ UNCHANGED <<cls, tile, ret, saved, mk, log, trk, ft>>

NextPatch == ExtractPatches

SpecPatch == InitPatch /\ [][NextPatch]_vars

(***************************************************************************)
(* The camera track of a Google Earth project and its alignment,           *)
(* get_google_earth_camera_poses and get_google_earth_aligned_seg_maps.    *)
(* A frame is given by the pixel position lnglat2xy finds for its          *)
(* coordinate and by its altitude.  Python floats are exact rationals      *)
(* here, n / d with d > 0: rounding is not modelled.                       *)
(***************************************************************************)
MaxFrames == 2

MaxOff == 2

N_MAX_SAMPLES == 6

Rat(n, d) == [n |-> n, d |-> d]

RatOfInt(i) == Rat(i, 1)

RatSub(a, b) == Rat(a.n * b.d - b.n * a.d, a.d * b.d)

RatEq(a, b) == a.n * b.d = b.n * a.d

RECURSIVE SumSeq(_)
SumSeq(xs) == IF xs = << >> THEN 0 ELSE xs[1] + SumSeq(Tail(xs))

\* np.mean of a list of numbers
np_mean(xs) == Rat(SumSeq(xs), Len(xs))

\* The side of the raster the patches are cut from, and the pixel of the
\* camera target in it, (cx, cy).
TrackSide == 2 * MaxPatch

TrackCentre == [x |-> MaxPatch, y |-> MaxPatch - 1]

FrameXs == {-MaxOff, -2, 0, 2, MaxOff}

FrameYs == {0, 1}

FrameAltitudes == {-1, 0, 1}

Frames ==
    [x : {TrackCentre.x + d : d \in FrameXs},
     y : {TrackCentre.y + d : d \in FrameYs},
     altitude : FrameAltitudes]

FrameLists == UNION { [1..n -> Frames] : n \in 0..MaxFrames }

\* files: the project's two json files exist; altitude_relative: the
\* "relative" value of the altitudePOI attribute of the camera target.
Tracks ==
    [files : BOOLEAN, altitude_relative : {0, 1}, frames : FrameLists,
     patch_size : {MaxPatch - 1, MaxPatch}]

\* A plausible slip: the poses are collected without the altitude check.
CameraPosesUnchecked(track) ==
    IF ~track.files THEN [k |-> "None"]
    ELSE IF track.frames = << >> THEN [k |-> "IndexError"]
    ELSE [k |-> "returned",
          center |-> [x |-> TrackCentre.x, y |-> TrackCentre.y,
                      altitude |-> track.altitude_relative + 1],
          poses |-> track.frames]

\* The camera poses of a project: None without the project files; the
\* centre altitude is the relative value plus 1 and is asserted to be 1
\* before the frames are collected.
get_google_earth_camera_poses(track) ==
    IF ~track.files THEN [k |-> "None"]
    ELSE IF track.frames = << >> THEN [k |-> "IndexError"]
    ELSE IF track.altitude_relative + 1 # 1 THEN [k |-> "AssertionError"]
    ELSE [k |-> "returned",
          center |-> [x |-> TrackCentre.x, y |-> TrackCentre.y,
                      altitude |-> track.altitude_relative + 1],
          poses |-> track.frames]

\* gcp["position"]: the frame relative to the camera target
RelativePosition(frame, cx, cy) ==
    [x |-> frame.x - cx, y |-> frame.y - cy, z |-> frame.altitude]

\* Plausible slips: the sum of the positions for their mean, and the first
\* frame's position for the mean.
TrackOffsetOfSum(positions) ==
    [x |-> RatOfInt(SumSeq([i \in DOMAIN positions |-> positions[i].x])),
     y |-> RatOfInt(SumSeq([i \in DOMAIN positions |-> positions[i].y]))]

TrackOffsetOfFirst(positions) ==
    [x |-> RatOfInt(positions[1].x), y |-> RatOfInt(positions[1].y)]

\* offset: the mean of the relative positions over all the frames
TrackOffset(positions) ==
    [x |-> np_mean([i \in DOMAIN positions |-> positions[i].x]),
     y |-> np_mean([i \in DOMAIN positions |-> positions[i].y])]

\* position.x -= offset.x - vol_cx, position.y -= offset.y - vol_cy
CorrectedPosition(position, offset, vol_cx, vol_cy) ==
    [x |-> RatSub(RatOfInt(position.x), RatSub(offset.x, RatOfInt(vol_cx))),
     y |-> RatSub(RatOfInt(position.y), RatSub(offset.y, RatOfInt(vol_cy))),
     z |-> RatOfInt(position.z)]

\* The volume the extruder makes of the two patches.
tensor_extruder(part_seg_map, part_hf) ==
    [seg |-> [rows |-> part_seg_map.rows, cols |-> part_seg_map.cols],
     hf |-> [rows |-> part_hf.rows, cols |-> part_hf.cols]]

\* The view of one frame: what the intersection kernel finds in the volume
\* from the origin towards the volume centre, of which voxel_id[..., 0],
\* the first sample along each ray, is kept.  The kernel is a function of
\* its arguments, so a view is named by them.
RenderedView(seg_volume, pos, vol_cx, vol_cy, vol_cz) ==
    [volume |-> seg_volume,
     cam_ori |-> <<pos.y, pos.x, pos.z>>,
     cam_dir |-> <<RatSub(RatOfInt(vol_cy), pos.y), RatSub(RatOfInt(vol_cx), pos.x),
                   RatSub(RatOfInt(vol_cz), pos.z)>>,
     max_samples |-> N_MAX_SAMPLES,
     sample |-> 0]

\* The whole function on a raster of side TrackSide whose bounds start at 0.
\* The result holds, beside the returned seg_maps, the offset and the poses
\* as the function leaves them.
get_google_earth_aligned_seg_maps(track) ==
    LET ge_camera_poses == get_google_earth_camera_poses(track)
    IN  IF ge_camera_poses.k = "None" THEN [k |-> "TypeError"]
        ELSE IF ge_camera_poses.k # "returned" THEN ge_camera_poses
        ELSE
          LET cx == ge_camera_poses.center.x
              cy == ge_camera_poses.center.y
              part_seg_map == _get_img_patch(TrackSide, TrackSide, cx - 0, cy - 0, track.patch_size)
              part_hf == _get_img_patch(TrackSide, TrackSide, cx - 0, cy - 0, track.patch_size)
              seg_volume == tensor_extruder(part_seg_map, part_hf)
              vol_cx == VolumeCentre(track.patch_size)
              vol_cy == VolumeCentre(track.patch_size)
              vol_cz == 0
              positions == [i \in DOMAIN ge_camera_poses.poses |->
                               RelativePosition(ge_camera_poses.poses[i], cx, cy)]
              offset == TrackOffset(positions)
              poses == [i \in DOMAIN positions |->
                           CorrectedPosition(positions[i], offset, vol_cx, vol_cy)]
          IN  [k |-> "returned",
               offset |-> offset,
               poses |-> poses,
               seg_maps |-> [i \in DOMAIN poses |->
                                RenderedView(seg_volume, poses[i], vol_cx, vol_cy, vol_cz)]]

\* main's list of the Google Earth projects of a tile
ge_projects == << >>

\* main's step after the rasters of a tile are saved: without a project it
\* logs a warning and goes on to the next tile; else it saves the views of
\* each project under the index of the frame (from 0).
MainAlignedViews(track) ==
    IF ge_projects = << >>
    THEN [k |-> "continued", files |-> << >>,
          log |-> <<[level |-> "warning", msg |-> "no Google Earth project"]>>]
    ELSE LET r == get_google_earth_aligned_seg_maps(track)
         IN  IF r.k = "returned"
             THEN [k |-> "saved",
                   files |-> [idx \in 0..(Len(r.seg_maps) - 1) |-> r.seg_maps[idx + 1]],
                   log |-> << >>]
             ELSE [k |-> r.k, files |-> << >>, log |-> << >>]

(***************************************************************************)
(* SpecTrack: a Google Earth project on disk; one direct call of           *)
(* get_google_earth_aligned_seg_maps on it, and main's step for the tile   *)
(* the project belongs to.                                                 *)
(***************************************************************************)
InitTrack ==
    /\ trk \in { [track |-> t, result |-> Pending, main |-> Pending] : t \in Tracks }
    /\ log = << >>
    /\ cls = Idle /\ tile = Idle /\ ret = Idle /\ saved = FALSE /\ mk = Idle /\ pt = Idle
    /\ ft = Idle

GetAlignedSegMaps ==
    /\ trk.result = Pending
    /\ trk' = [trk EXCEPT !.result = get_google_earth_aligned_seg_maps(trk.track)]
    /\ UNCHANGED <<cls, tile, ret, saved, mk, pt, log, ft>>

MainGoogleEarth ==
    /\ trk.main = Pending
    /\ LET m == MainAlignedViews(trk.track)
       IN  /\ trk' = [trk EXCEPT !.main = [k |-> m.k, files |-> m.files]]
           /\ log' = log \o m.log
    /\ UNCHANGED <<cls, tile, ret, saved, mk, pt, ft>>

NextTrack == GetAlignedSegMaps \/ MainGoogleEarth

SpecTrack == InitTrack /\ [][NextTrack]_vars

(***************************************************************************)
(* The tile fetcher, utils/osm_image_fetcher.py: get_tile_img and the loop *)
(* of main that stitches the tiles of one map into tiles.png.  A file of   *)
(* the cache directory is absent, an image, the part of an image that was  *)
(* copied before the stream broke, or a complete body that is not an       *)
(* image.  Counters stop counting at MaxAttempts; calls_odd is the parity  *)
(* of the number of calls of get_tile_img, which never stops counting.     *)
(***************************************************************************)
FetchTiles == 2

MaxAttempts == 3

\* time.sleep(0.5), in tenths of a second
SleepTenths == 5

\* What the server does with one request: the connection fails, the stream
\* breaks while it is copied, or a body arrives whole, an image or not.
ServerAnswers == {"refused", "broken", "not_image", "image"}

\* cv2.imread gives None for a file that is absent or is not an image.
imread(file) == IF file = "image" THEN "image" ELSE "None"

\* One call of get_tile_img on a tile whose cache file is `file`, the
\* server answering `answer` if it is asked.
get_tile_img(file, answer) ==
    IF file = "absent"
    THEN LET written == CASE answer = "refused" -> "absent"
                          [] answer = "broken" -> "partial"
                          [] answer = "not_image" -> "not_image"
                          [] answer = "image" -> "image"
         IN  [file |-> written, fetched |-> TRUE, answer |-> answer,
              exception |-> answer \in {"refused", "broken"},
              slept |-> SleepTenths, img |-> imread(written)]
    ELSE [file |-> file, fetched |-> FALSE, answer |-> "none",
          exception |-> FALSE, slept |-> 0, img |-> imread(file)]

Bump(n) == IF n < MaxAttempts THEN n + 1 ELSE n

(***************************************************************************)
(* SpecFetch: main on one map of FetchTiles tiles, some of them in the     *)
(* cache from an earlier run.  The program is sequential and keeps         *)
(* running: a step that is possible is taken.                              *)
(***************************************************************************)
InitFetch ==
    /\ ft \in { [cache |-> c, pos |-> 1, osm_img_patch |-> "None",
                 osm_img |-> [t \in 1..FetchTiles |-> "zeros"],
                 attempts |-> 0, fetches |-> 0, calls_odd |-> FALSE,
                 last |-> [fetched |-> FALSE, answer |-> "none", exception |-> FALSE,
                           slept |-> 0, img |-> "None", after_failure |-> FALSE],
                 status |-> "running", tiles_png |-> "None"] :
                c \in [1..FetchTiles -> {"absent", "image"}] }
    /\ log = << >>
    /\ cls = Idle /\ tile = Idle /\ ret = Idle /\ saved = FALSE /\ mk = Idle /\ pt = Idle
    /\ trk = Idle

\* One turn of "while osm_img_patch is None": a call of get_tile_img.
RetryFetch ==
    /\ ft.status = "running" /\ ft.pos <= FetchTiles
    /\ ft.osm_img_patch = "None"
    /\ \E answer \in ServerAnswers :
          LET r == get_tile_img(ft.cache[ft.pos], answer)
          IN  ft' = [ft EXCEPT
                        !.cache[ft.pos] = r.file,
                        !.osm_img_patch = r.img,
                        !.attempts = Bump(ft.attempts),
                        !.calls_odd = ~ft.calls_odd,
                        !.fetches = IF r.fetched THEN Bump(ft.fetches) ELSE ft.fetches,
                        !.last = [fetched |-> r.fetched, answer |-> r.answer,
                                  exception |-> r.exception, slept |-> r.slept,
                                  img |-> r.img, after_failure |-> ft.attempts >= 1]]
    /\ UNCHANGED <<cls, tile, ret, saved, mk, pt, log, trk>>

\* The patch is copied into osm_img and the loops go on to the next tile.
PlacePatch ==
    /\ ft.status = "running" /\ ft.pos <= FetchTiles
    /\ ft.osm_img_patch # "None"
    /\ ft' = [ft EXCEPT
                 !.osm_img[ft.pos] = ft.osm_img_patch,
                 !.pos = ft.pos + 1,
                 !.osm_img_patch = "None",
                 !.attempts = 0]
    /\ UNCHANGED <<cls, tile, ret, saved, mk, pt, log, trk>>

\* cv2.imwrite of tiles.png, cut out of the stitched tiles.
SaveImage ==
    /\ ft.status = "running" /\ ft.pos = FetchTiles + 1
    /\ ft' = [ft EXCEPT !.status = "written", !.tiles_png = ft.osm_img]
    /\ UNCHANGED <<cls, tile, ret, saved, mk, pt, log, trk>>

NextFetch == RetryFetch \/ PlacePatch \/ SaveImage

SpecFetch == InitFetch /\ [][NextFetch]_vars /\ WF_vars(NextFetch)

HasTag(tags, key, value) == key \in DOMAIN tags /\ tags[key] = value

\* C1: height-field classification follows the ordered rules: role "inner"
\* gives None whatever else is tagged; otherwise building "roof" gives None;
\* otherwise landuse "construction" gives 10; otherwise the result is the
\* integer nearest to the height tag (at most half a unit away from it).
C1_HeightFieldRules ==
    (cls.called /\ cls.map_name = "height_field") =>
        IF HasTag(cls.tags, "role", "inner") THEN cls.result = None
        ELSE IF HasTag(cls.tags, "building", "roof") THEN cls.result = None
        ELSE IF HasTag(cls.tags, "landuse", "construction") THEN cls.result = Val(10)
        ELSE "height" \in DOMAIN cls.tags =>
                /\ cls.result.k = "val"
                /\ 10 * cls.result.v - cls.tags["height"] \in -5..5

\* An inner footprint that is also a roof under construction with a height
\* has been classified for the height field and skipped.
C1_Witness ==
    /\ cls.called /\ cls.map_name = "height_field"
    /\ HasTag(cls.tags, "role", "inner")
    /\ HasTag(cls.tags, "landuse", "construction")
    /\ "height" \in DOMAIN cls.tags
    /\ cls.result = None

\* C2 as stated: in every layer kind, a tag set with role "inner" classifies
\* to no value (None), never to a class id, a height or zero.
C2_InnerNeverPainted ==
    (/\ cls.called
     /\ cls.map_name \in {"height_field", "seg_map", "footprint_contour"}
     /\ HasTag(cls.tags, "role", "inner")) => cls.result = None

\* C2 as amended: a tag set with role "inner" classifies to None for the
\* height field, to class 2 for the segmentation map, and for the footprint
\* contour to 1 when a building tag is present and to 0 otherwise.
C2_InnerByLayer ==
    (cls.called /\ HasTag(cls.tags, "role", "inner")) =>
        /\ cls.map_name = "height_field" => cls.result = None
        /\ cls.map_name = "seg_map" => cls.result = Val(2)
        /\ cls.map_name = "footprint_contour" =>
               cls.result = IF "building" \in DOMAIN cls.tags THEN Val(1) ELSE Val(0)

\* An inner footprint without a building tag has been classified for the
\* segmentation map and received class 2.
C2_Witness ==
    /\ cls.called /\ cls.map_name = "seg_map"
    /\ HasTag(cls.tags, "role", "inner")
    /\ "building" \notin DOMAIN cls.tags
    /\ cls.result = Val(2)

\* The pixels of the tile that footprint i covers, and what the tile says of
\* a pixel.
CoveredBy(p) == {i \in DOMAIN tile.footprints : p \in tile.footprints[i].cover}

InEnvMask(p) == tile.img.exists /\ (p \in tile.img.green \/ p \in tile.img.coast)

\* C3: in the segmentation map get_osm_images returns, no pixel is 0, and a
\* pixel that no highway, no environment mask and no footprint covers is 6.
C3_SegMapNeverZero ==
    ret.k = "returned" =>
        \A p \in Pixels :
            /\ ret.seg_map[p] # 0
            /\ (p \notin tile.highways /\ ~InEnvMask(p) /\ CoveredBy(p) = {})
                   => ret.seg_map[p] = 6

\* get_osm_images has returned for a tile with a pixel nothing covers, and
\* that pixel is class 6.
C3_Witness ==
    /\ ret.k = "returned"
    /\ \E p \in Pixels :
         /\ p \notin tile.highways /\ ~InEnvMask(p) /\ CoveredBy(p) = {}
         /\ ret.seg_map[p] = 6

\* A building footprint with a height value: a building tag, not an inner
\* role, not a roof, and a height-field value.
IsHeightedBuilding(tags) ==
    /\ "building" \in DOMAIN tags
    /\ ~HasTag(tags, "role", "inner")
    /\ ~HasTag(tags, "building", "roof")
    /\ HeightFieldColor(tags).k = "val"

\* C4: a pixel covered by exactly one footprint, a building with a height
\* value, ends with class 2 and that footprint's height, whatever highway,
\* coast zone or green land covers the pixel too.
C4_FootprintsOnTop ==
    ret.k = "returned" =>
        \A p \in Pixels : \A i \in CoveredBy(p) :
            (CoveredBy(p) = {i} /\ IsHeightedBuilding(tile.footprints[i].tags))
                => /\ ret.seg_map[p] = 2
                   /\ ret.height_field[p] = HeightFieldColor(tile.footprints[i].tags).v

\* A pixel under a highway, a coast zone and a green land mask is covered by
\* one building with a height, and carries the building's class and height.
C4_Witness ==
    /\ ret.k = "returned"
    /\ \E p \in Pixels : \E i \in CoveredBy(p) :
         /\ CoveredBy(p) = {i}
         /\ IsHeightedBuilding(tile.footprints[i].tags)
         /\ "height" \in DOMAIN tile.footprints[i].tags
         /\ p \in tile.highways
         /\ tile.img.exists /\ p \in tile.img.green /\ p \in tile.img.coast
         /\ ret.seg_map[p] = 2
         /\ ret.height_field[p] = HeightOfTag(tile.footprints[i].tags["height"])

\* C5 as stated: in the returned height field, a pixel a highway paints and
\* no environment mask and no footprint covers is 0, and a pixel nothing
\* paints is 4.
C5_HighwaysCarvedToZero ==
    ret.k = "returned" =>
        \A p \in Pixels :
            (~InEnvMask(p) /\ CoveredBy(p) = {})
                => ret.height_field[p] = IF p \in tile.highways THEN 0 ELSE 4

\* A footprint whose height-field classification needs the height tag.
NeedsHeight(tags) ==
    /\ ~HasTag(tags, "role", "inner")
    /\ ~HasTag(tags, "building", "roof")
    /\ ~HasTag(tags, "landuse", "construction")

\* C6: when a footprint that needs a height tag has none, get_osm_images
\* ends with the assertion's error, returns no raster, and main saves none.
C6_MissingHeightAborts ==
    (/\ ret # Pending
     /\ \E i \in DOMAIN tile.footprints :
           /\ NeedsHeight(tile.footprints[i].tags)
           /\ "height" \notin DOMAIN tile.footprints[i].tags)
        => /\ ret = [k |-> "AssertionError"]
           /\ saved = FALSE

\* get_osm_images has raised for a tile with a building without a height.
C6_Witness ==
    /\ ret = [k |-> "AssertionError"]
    /\ \E i \in DOMAIN tile.footprints :
          /\ NeedsHeight(tile.footprints[i].tags)
          /\ HasTag(tile.footprints[i].tags, "building", "yes")
          /\ "height" \notin DOMAIN tile.footprints[i].tags

\* A mask that is one solid blob of n pixels: n pixels in one 4-connected
\* component (a rectangle or two overlapping or touching rectangles).
IsSolidBlob(mask, n) == Cardinality(mask) = n /\ Len(Components(mask)) = 1

\* C7 as stated: a mask that is one solid 200-pixel blob is returned
\* unchanged, pixel for pixel.
C7_SolidBlobUnchanged ==
    (mk.called /\ IsSolidBlob(mk.mask, 200)) => mk.result = mk.mask

SeqRange(seq) == {seq[i] : i \in DOMAIN seq}

\* C8: the returned mask has no 4-connected component of 96 pixels or fewer,
\* it is made of pixels of the eroded mask, every component of the eroded
\* mask with more than 96 pixels is in it whole, and a mask of one pixel
\* cleans to the empty mask.
C8_SmallComponentsRemoved ==
    mk.called =>
        /\ \A C \in SeqRange(Components(mk.result)) : Cardinality(C) > 96
        /\ mk.result \subseteq erode(mk.mask)
        /\ \A C \in SeqRange(Components(erode(mk.mask))) :
              Cardinality(C) > 96 => C \subseteq mk.result
        /\ Cardinality(mk.mask) = 1 => mk.result = {}

\* A mask has been cleaned whose erosion has two components, one of 96
\* pixels or fewer, which was removed, and a larger one, which was kept.
C8_Witness ==
    /\ mk.called
    /\ mk.result # {}
    /\ Len(Components(erode(mk.mask))) = 2
    /\ \E C \in SeqRange(Components(erode(mk.mask))) :
          Cardinality(C) <= 96 /\ C \cap mk.result = {}

\* The requested window along an axis, and whether it leaves an axis of
\* length n.
Window(c, patch_size) == (c - patch_size \div 2)..(c + patch_size \div 2 - 1)

Exceeds(c, patch_size, n) == ~(Window(c, patch_size) \subseteq 0..(n - 1))

LoggedAxes(part) == {part.log[i].axis : i \in DOMAIN part.log}

\* C9 as stated: when the requested window leaves the raster on some side,
\* the patch holds exactly the rows and columns of the window that lie in
\* the raster, and a record is logged for each axis that was clamped.
C9_PatchClampedToRaster ==
    (/\ pt.called
     /\ \/ Exceeds(pt.arg.x, pt.arg.patch_size, pt.arg.w)
        \/ Exceeds(pt.arg.y, pt.arg.patch_size, pt.arg.h))
        => /\ pt.part_seg_map.cols
                = Window(pt.arg.x, pt.arg.patch_size) \cap 0..(pt.arg.w - 1)
           /\ pt.part_seg_map.rows
                = Window(pt.arg.y, pt.arg.patch_size) \cap 0..(pt.arg.h - 1)
           /\ Exceeds(pt.arg.x, pt.arg.patch_size, pt.arg.w)
                => "horizontal" \in LoggedAxes(pt.part_seg_map)
           /\ Exceeds(pt.arg.y, pt.arg.patch_size, pt.arg.h)
                => "vertical" \in LoggedAxes(pt.part_seg_map)

\* C10 as stated: when a patch is extracted without clamping, the volume
\* centre (vol_cx, vol_cy) is the index, inside the patch, of the target
\* pixel (x, y): the target's column is vol_cx columns after the patch's
\* first column, and its row vol_cy rows after the patch's first row.
C10_VolumeCentreIsTarget ==
    (/\ pt.called
     /\ pt.part_seg_map.log = << >>
     /\ pt.part_seg_map.cols # {} /\ pt.part_seg_map.rows # {})
        => /\ MinOf(pt.part_seg_map.cols) + pt.vol_cx = pt.arg.x
           /\ MinOf(pt.part_seg_map.rows) + pt.vol_cy = pt.arg.y

\* Every footprint of the tile that needs a height tag has one.
HeightsComplete ==
    \A i \in DOMAIN tile.footprints :
        NeedsHeight(tile.footprints[i].tags) => "height" \in DOMAIN tile.footprints[i].tags

\* C14: when the tile image is missing, get_osm_images logs a warning and,
\* the footprints having their heights, returns; the segmentation map has no
\* pixel of class 3 or 5, and every pixel of the height field that no
\* footprint covers has the default terrain value 4.
C14_MissingImageDegrades ==
    (ret # Pending /\ ~tile.img.exists) =>
        /\ \E i \in DOMAIN log : log[i].level = "warning"
        /\ HeightsComplete => ret.k = "returned"
        /\ ret.k = "returned" =>
              \A p \in Pixels :
                  /\ ret.seg_map[p] \notin {3, 5}
                  /\ CoveredBy(p) = {} => ret.height_field[p] = 4

\* get_osm_images has returned for a tile without image, with a pixel under
\* a highway and no footprint: the warning is logged and the pixel has class
\* 1 and height 4.
C14_Witness ==
    /\ ret.k = "returned" /\ ~tile.img.exists
    /\ Len(log) = 1
    /\ \E p \in Pixels :
          /\ p \in tile.highways /\ CoveredBy(p) = {}
          /\ ret.seg_map[p] = 1 /\ ret.height_field[p] = 4

\* C17 as stated: the green-land step and the coast step change only pixels
\* that are unclassified after the highways: a pixel a highway painted class
\* 1 (and no footprint covers) is still class 1 in the returned map.
C17_EnvOnlyOnUnclassified ==
    ret.k = "returned" =>
        \A p \in Pixels :
            (p \in tile.highways /\ CoveredBy(p) = {}) => ret.seg_map[p] = 1

\* C18 as stated: on every pixel no footprint covers, a final class 5 goes
\* with a final height 0 and a final class 3 with a final height 8, pixels
\* in both masks included.
C18_LayersAgree ==
    ret.k = "returned" =>
        \A p \in Pixels :
            CoveredBy(p) = {} =>
                /\ ret.seg_map[p] = 5 => ret.height_field[p] = 0
                /\ ret.seg_map[p] = 3 => ret.height_field[p] = 8

RatAdd(a, b) == Rat(a.n * b.d + b.n * a.d, a.d * b.d)

RECURSIVE RatSum(_)
RatSum(rs) == IF rs = << >> THEN RatOfInt(0) ELSE RatAdd(rs[1], RatSum(Tail(rs)))

\* The positions of the frames of the track relative to the camera target.
TrackRelative ==
    [i \in DOMAIN trk.track.frames |->
        RelativePosition(trk.track.frames[i], TrackCentre.x, TrackCentre.y)]

\* The corrected position of frame i relative to the volume centre.
FromVolumeCentre(i) ==
    LET vc == VolumeCentre(trk.track.patch_size)
    IN  [x |-> RatSub(trk.result.poses[i].x, RatOfInt(vc)),
         y |-> RatSub(trk.result.poses[i].y, RatOfInt(vc)),
         z |-> RatSub(trk.result.poses[i].z, RatOfInt(0))]

\* C11: for a track whose relative positions have altitudes summing to 0,
\* the corrected positions relative to the volume centre sum to (0, 0, 0),
\* so their mean is (0, 0, 0); and one offset, the mean of the relative
\* positions over all the frames, is what every frame's position loses.
C11_MeanCorrectedIsZero ==
    trk.result.k = "returned" =>
        LET idx == DOMAIN trk.result.poses
            rel == TrackRelative
        IN  /\ idx = DOMAIN trk.track.frames
            /\ SumSeq([i \in idx |-> rel[i].z]) = 0 =>
                  /\ RatSum([i \in idx |-> FromVolumeCentre(i).x]).n = 0
                  /\ RatSum([i \in idx |-> FromVolumeCentre(i).y]).n = 0
                  /\ RatSum([i \in idx |-> FromVolumeCentre(i).z]).n = 0
            /\ RatEq(trk.result.offset.x, Rat(SumSeq([i \in idx |-> rel[i].x]), Len(rel)))
            /\ RatEq(trk.result.offset.y, Rat(SumSeq([i \in idx |-> rel[i].y]), Len(rel)))
            /\ \A i \in idx :
                  /\ RatEq(RatSub(RatOfInt(rel[i].x), FromVolumeCentre(i).x),
                           trk.result.offset.x)
                  /\ RatEq(RatSub(RatOfInt(rel[i].y), FromVolumeCentre(i).y),
                           trk.result.offset.y)

\* A track of two frames at different places, with altitudes 1 and -1 and a
\* mean that is no whole number of pixels, has been aligned.
C11_Witness ==
    /\ trk.result.k = "returned"
    /\ Len(trk.track.frames) = 2
    /\ trk.track.frames[1].x # trk.track.frames[2].x
    /\ trk.track.frames[1].altitude = 1 /\ trk.track.frames[2].altitude = -1
    /\ trk.result.offset.x.n # 0
    /\ trk.result.offset.y.n % trk.result.offset.y.d # 0

\* The track of two frames 2 pixels right and 2 pixels left of the target.
TwoFramesAcross ==
    /\ trk.result.k = "returned"
    /\ Len(trk.track.frames) = 2
    /\ TrackRelative[1].x = 2 /\ TrackRelative[1].y = 0
    /\ TrackRelative[2].x = -2 /\ TrackRelative[2].y = 0

\* C12 as stated: with two frames at (+2, 0) and (-2, 0) pixels from the
\* target, the corrected x of each frame relative to the volume centre is 0.
C12_BothOffsetsZero ==
    TwoFramesAcross =>
        \A i \in 1..2 : FromVolumeCentre(i).x.n = 0

\* C12 amended: with two frames at (+2, 0) and (-2, 0) pixels from the
\* target the offset is 0, the corrected x relative to the volume centre is
\* +2 for the first frame and -2 for the second, and the two sum to 0.
C12_OffsetsKeptAroundZero ==
    TwoFramesAcross =>
        /\ trk.result.offset.x.n = 0
        /\ RatEq(FromVolumeCentre(1).x, RatOfInt(2))
        /\ RatEq(FromVolumeCentre(2).x, RatOfInt(-2))
        /\ RatAdd(FromVolumeCentre(1).x, FromVolumeCentre(2).x).n = 0

C12_Witness ==
    /\ TwoFramesAcross
    /\ Len(trk.result.seg_maps) = 2
    /\ trk.result.poses[1].x # trk.result.poses[2].x

\* C13: when the project files exist and the altitude of the camera target
\* is not 1, the call ends with an error and returns nothing: no pose, no
\* view, no altitude; the error is the AssertionError when the track has a
\* frame.
C13_AltitudeAsserted ==
    (trk.result # Pending /\ trk.track.files /\ trk.track.altitude_relative + 1 # 1) =>
        /\ trk.result \in {[k |-> "AssertionError"], [k |-> "IndexError"]}
        /\ trk.track.frames # << >> => trk.result = [k |-> "AssertionError"]
        /\ get_google_earth_camera_poses(trk.track) = trk.result

\* The call on a track of two frames with target altitude 2 has ended with
\* the AssertionError.
C13_Witness ==
    /\ trk.track.files /\ trk.track.altitude_relative + 1 = 2
    /\ Len(trk.track.frames) = 2
    /\ trk.result = [k |-> "AssertionError"]

\* The project is one the alignment accepts: files, a frame, altitude 1.
TrackAccepted ==
    /\ trk.track.files /\ trk.track.frames # << >>
    /\ trk.track.altitude_relative + 1 = 1

\* C16 as stated: the call returns one view per frame in track order, the
\* i-th made from the i-th pose and the first sample of each ray, all of
\* one volume; and main saves the i-th view under the frame index i.
C16_OneViewPerFrame ==
    /\ trk.result.k = "returned" =>
          /\ Len(trk.result.seg_maps) = Len(trk.track.frames)
          /\ \A i \in DOMAIN trk.result.seg_maps :
                LET v == trk.result.seg_maps[i]
                    pos == trk.result.poses[i]
                IN  /\ v.cam_ori = <<pos.y, pos.x, pos.z>>
                    /\ v.sample = 0
                    /\ v.volume = trk.result.seg_maps[1].volume
    /\ (trk.main # Pending /\ TrackAccepted) =>
          LET r == get_google_earth_aligned_seg_maps(trk.track)
          IN  /\ DOMAIN trk.main.files = 0..(Len(trk.track.frames) - 1)
              /\ \A idx \in DOMAIN trk.main.files :
                    trk.main.files[idx] = r.seg_maps[idx + 1]

\* C15 as stated: the fetch of a tile is retried a bounded number of times,
\* so main comes to an end, with tiles.png written or with the error of the
\* fetch that kept failing; and a tiles.png that is written holds a fetched
\* image for every tile.
C15_BoundedRetries ==
    /\ <>(ft.status \in {"written", "raised"})
    /\ [](ft.status = "written" =>
             \A t \in 1..FetchTiles : ft.tiles_png[t] = "image")

\* C19 as stated: a call of get_tile_img that follows a failed one issues a
\* network fetch, and a fetch the server answers with an image gives the
\* loop that image, whatever the earlier calls did.
C19_RetryFetchesAgain ==
    /\ ft.last.after_failure => ft.last.fetched
    /\ (ft.last.fetched /\ ft.last.answer = "image") => ft.osm_img_patch = "image"

=============================================================================
